---- MODULE Spec2Model ----
(***************************************************************************)
(* Model of the token protocol of main.go: the smart-card transport        *)
(* adapter (ScardTag), the framed command/response codec (Token.Transceive)*)
(* and the two commands GetInfo and BurnSeed.                              *)
(*                                                                         *)
(* A call blocks in c.Transmit; the model has one action per call entry    *)
(* and one per return of c.Transmit, each running the code up to the next  *)
(* c.Transmit or up to the return (or panic) of the top-level call.        *)
(* Go slices are 0-based, TLA+ sequences 1-based: Go resp[i] is resp[i+1]. *)
(***************************************************************************)
EXTENDS Integers, Sequences, FiniteSets, TLC

\* ------------------------------------------------------------------ bounds
MaxSeedLen == 2
MaxCalls == 2
MaxCkLen == 5
MaxReaders == 2

\* ------------------------------------------------------- bytes and bit ops
Byte == 0..255

RECURSIVE BitXor(_, _)
BitXor(a, b) ==
  IF a = 0 THEN b
  ELSE IF b = 0 THEN a
  ELSE (((a % 2) + (b % 2)) % 2) + 2 * BitXor(a \div 2, b \div 2)

RECURSIVE BitOr(_, _)
BitOr(a, b) ==
  IF a = 0 THEN b
  ELSE IF b = 0 THEN a
  ELSE (IF a % 2 = 1 \/ b % 2 = 1 THEN 1 ELSE 0) + 2 * BitOr(a \div 2, b \div 2)

\* ------------------------------------------------------- outcomes of a call
NoResult == [kind |-> "none", val |-> <<>>, msg |-> ""]
Ok(v) == [kind |-> "ok", val |-> v, msg |-> ""]
Err(m) == [kind |-> "err", val |-> <<>>, msg |-> m]
Panic(m) == [kind |-> "panic", val |-> <<>>, msg |-> m]

\* ------------------------------------------------------------ pure helpers
\* xor(data ...uint8): running XOR of data, 0 for no data.  The loop runs
\* left to right; ^ is associative, so the fold is evaluated by halves to
\* keep the evaluation depth logarithmic for frames of 250 and more bytes.
RECURSIVE xorRange(_, _, _)
xorRange(data, lo, hi) ==
  IF lo > hi THEN 0
  ELSE IF lo = hi THEN BitXor(0, data[lo])
  ELSE LET mid == (lo + hi) \div 2
       IN  BitXor(xorRange(data, lo, mid), xorRange(data, mid + 1, hi))

xor(data) == xorRange(data, 1, Len(data))

\* the fake SELECT APDU of ScardTag.Transceive
Probe == <<0, 164, 4, 0>>

FrameOf_LenNoChecksum(data) == <<134, Len(data) % 256>> \o data \o <<xor(data)>>

\* Token.Transceive, outbound: buffer := {0x86, uint8(len(data)+1)} ++ data ++ xor(data)
FrameOf(data) == <<134, (Len(data) + 1) % 256>> \o data \o <<xor(data)>>

\* the uint8 expression 2+resp[1]-1: both steps wrap modulo 256
CkIndex(n) == ((((2 + n) % 256) - 1) + 256) % 256

\* Token.Transceive, inbound: the checks on resp after a nil error
Validate(resp) ==
  IF Len(resp) = 0 THEN Panic("index out of range")
  ELSE IF resp[1] # 170 THEN Err("unknown response header byte")
  ELSE IF Len(resp) < 2 THEN Panic("index out of range")
  ELSE LET hi == CkIndex(resp[2]) IN
       IF hi >= Len(resp) THEN Panic("index out of range")
       ELSE IF hi < 2 THEN Panic("slice bounds out of range")
       ELSE IF resp[hi + 1] # xor(SubSeq(resp, 3, hi))
            THEN Err("response checksum incorrect")
            ELSE Ok(SubSeq(resp, 3, hi))

\* checksum(data): binary.Read takes one big-endian uint16 per round and
\* fails once fewer than 2 bytes are left; checksum += u wraps at 16 bits
\* (the sum of words lo..hi is evaluated by halves); then |= 0x5115
RECURSIVE wordSum(_, _, _)
wordSum(data, lo, hi) ==
  IF lo > hi THEN 0
  ELSE IF lo = hi THEN data[2 * lo - 1] * 256 + data[2 * lo]
  ELSE LET mid == (lo + hi) \div 2
       IN  (wordSum(data, lo, mid) + wordSum(data, mid + 1, hi)) % 65536

checksum_OddPadded(data) ==
  BitOr(wordSum(data \o <<0>>, 1, (Len(data) + 1) \div 2), 20757)

checksum(data) == BitOr(wordSum(data, 1, Len(data) \div 2), 20757)

\* BurnSeed: buffer := seed ++ {6, 30} ++ BigEndian(checksum(seed))
BurnBuffer(s) ==
  s \o <<6, 30>> \o <<checksum(s) \div 256, checksum(s) % 256>>

\* BurnSeed: the index in key := data[5]
KeyIndex == 5

KeyOf_Offset4(info) == info[KeyIndex]

\* BurnSeed: key := data[5] (0-based), for an info that has the index
KeyOf(info) == info[KeyIndex + 1]

\* BurnSeed: for i := range buffer { buffer[i] ^= key }
XorKey(buf, key) == [i \in 1..Len(buf) |-> BitXor(buf[i], key)]

\* ------------------------------------------------------------- environment
\* what the card may answer to c.Transmit: the transport is opaque, so the
\* model offers well-formed frames, malformed ones and transport errors
SeedBytes == {17, 34, 255}
Seeds == UNION {[1..n -> SeedBytes] : n \in 0..MaxSeedLen}

Fill(n, b) == [i \in 1..n |-> b]

\* payloads an outside caller hands to Token.Transceive
Payloads ==
  {<<>>, <<16>>, <<65>>, <<1, 2>>, <<24, 0, 255>>}
    \cup {Fill(n, b) : n \in {253, 254, 255}, b \in {0, 7}}

\* a well-formed inbound frame around payload p
DeviceFrame(p) == <<170, (Len(p) + 1) % 256>> \o p \o <<xor(p)>>

\* the device echoing a sent frame with the reply header
SwapHeader(f) == [i \in 1..Len(f) |-> IF i = 1 THEN 170 ELSE f[i]]

FixedReplies ==
  { <<>>,                            \* empty reply
    <<170>>,                         \* header only
    <<0, 1, 0>>,                     \* wrong header
    <<170, 2, 65, 0>>,               \* wrong checksum
    <<170, 2, 1, 1>>,                \* acknowledgment, payload [1]
    <<170, 0>>,                      \* declared length 0
    <<170, 1, 0>>,                   \* declared length 1, empty payload
    <<170, 5, 1>>,                   \* shorter than declared
    DeviceFrame(<<0, 0, 0, 0, 42>>),       \* info of 5 bytes
    DeviceFrame(<<0, 0, 0, 0, 0, 42>>),    \* info of 6 bytes
    DeviceFrame(<<1, 2, 3, 4, 5, 6, 9>>),  \* info of 7 bytes
    DeviceFrame(Fill(253, 3)),             \* declared length 254
    DeviceFrame(Fill(254, 3)),             \* declared length 255
    <<170, 255>> \o Fill(254, 3) \o <<1>>  \* declared length 255, wrong checksum
  }

TransportErrors == {"card removed", "reader unavailable"}

TransmitOk(bytes) == [err |-> "nil", resp |-> bytes]
TransmitErr(e) == [err |-> e, resp |-> <<>>]

\* results of c.Transmit(probe): the answer is discarded by the caller
ProbeResults ==
  {TransmitOk(<<144, 0>>), TransmitOk(<<>>)} \cup {TransmitErr(e) : e \in TransportErrors}

\* results of c.Transmit(f) for a frame f
FrameResults(f) ==
  {TransmitOk(b) : b \in FixedReplies \cup {SwapHeader(f)}}
    \cup {TransmitErr(e) : e \in TransportErrors}

\* ------------------------------------------------------------------- state
VARIABLES
  pc,       \* "idle", "probe" / "frame" (blocked in c.Transmit), "done"
  op,       \* the call in progress: "none", "Transceive", "GetInfo", "BurnSeed"
  stage,    \* BurnSeed: "info" while in GetInfo, "burn" after; else "none"
  seed,     \* BurnSeed: the bytes of the caller's seed slice
  seedIn,   \* BurnSeed: the bytes of the seed when the call was entered
  buffer,   \* BurnSeed: the local buffer
  infoRes,  \* BurnSeed: what t.GetInfo() returned (data, err)
  data,     \* Token.Transceive: the argument data
  frame,    \* Token.Transceive: the local buffer handed to Tag.Transceive
  sent,     \* byte strings passed to c.Transmit during the call, in order
  rcvd,     \* results of c.Transmit during the call, in order
  stdout,   \* lines printed by transceiveRaw during the call
  result,   \* what the call returned (or that it panicked)
  calls,    \* number of calls started
  usedKeys, \* the keys of the BurnSeed calls so far that reached the XOR loop
  DEBUG,    \* the global DEBUG
  twin,     \* the recorded call that is run again under the other DEBUG
  ckData,   \* checksum: the argument data
  ckOut,    \* checksum: whether it has returned, and the value returned
  rpc,      \* run: "off" (no run), "context", "readers", "read", "connect",
            \*      "burning" (inside token.BurnSeed), "exit"
  readers,  \* run: the reader names that ListReaders returned
  ridx,     \* run: position of the inner loop in readers
  seedText, \* run: the line read from stdin
  card,     \* run: the reader whose card is connected, "" for card == nil
  connectTried, \* run: context.Connect has been called
  exit      \* run: how the run ended

\* the state of a call on the Token
tokenVars ==
  <<pc, op, stage, seed, seedIn, buffer, infoRes, data, frame, sent, rcvd,
    stdout, result, calls, usedKeys>>

\* the state that no method of Token or ScardTag writes
runVars == <<rpc, readers, ridx, seedText, card, connectTried, exit>>
outerVars == <<DEBUG, twin, ckData, ckOut, runVars>>

vars == <<tokenVars, outerVars>>

\* a Token between calls: the struct holds the Tag and nothing else
InitToken ==
  /\ pc = "idle"
  /\ op = "none"
  /\ stage = "none"
  /\ seed = <<>>
  /\ seedIn = <<>>
  /\ buffer = <<>>
  /\ infoRes = NoResult
  /\ data = <<>>
  /\ frame = <<>>
  /\ sent = <<>>
  /\ rcvd = <<>>
  /\ stdout = <<>>
  /\ result = NoResult
  /\ calls = 0
  /\ usedKeys = <<>>

NoChecksum == [done |-> FALSE, sum |-> 0]

NoTwin ==
  [on |-> FALSE, debug |-> FALSE, op |-> "none", arg |-> <<>>, sent |-> <<>>,
   rcvd |-> <<>>, stdout |-> <<>>, result |-> NoResult]

NoExit == [kind |-> "none", msg |-> ""]

\* the Token is used without run
NoRun ==
  /\ rpc = "off"
  /\ readers = <<>>
  /\ ridx = 1
  /\ seedText = <<>>
  /\ card = ""
  /\ connectTried = FALSE
  /\ exit = NoExit

Init ==
  /\ InitToken
  /\ DEBUG \in BOOLEAN
  /\ twin = NoTwin
  /\ ckData = <<>>
  /\ ckOut = NoChecksum
  /\ NoRun

\* ----------------------------------------------------------------- actions
\* fmt.Printf under if DEBUG: the line is appended to what was printed
Printed(out, dir, bytes, e) ==
  IF DEBUG THEN Append(out, [dir |-> dir, bytes |-> bytes, err |-> e]) ELSE out

transceiveRaw_DebugDryRun(bytes, at, out) ==
  /\ sent' = IF DEBUG THEN sent ELSE Append(sent, bytes)
  /\ stdout' = Printed(out, ">", bytes, "")
  /\ pc' = at

\* transceiveRaw(data): prints data if DEBUG, hands it to c.Transmit, blocks
transceiveRaw(bytes, at, out) ==
  /\ sent' = Append(sent, bytes)
  /\ stdout' = Printed(out, ">", bytes, "")
  /\ pc' = at

\* transceiveRaw after c.Transmit returned r: prints resp and err if DEBUG
PrintedReply(r) == Printed(stdout, "<", r.resp, r.err)

\* ScardTag.Transceive, first half: the fake SELECT goes out first
ScardTagTransceive(out) == transceiveRaw(Probe, "probe", out)

\* Token.Transceive, first half: build the frame, pass it to the Tag
TokenTransceive(d, out) ==
  /\ data' = d
  /\ frame' = FrameOf(d)
  /\ ScardTagTransceive(out)

GetInfo_WrongCommand(out) == TokenTransceive(<<17>>, out)

\* GetInfo: t.Transceive({0x10})
GetInfo(out) == TokenTransceive(<<16>>, out)

\* an outside caller invokes t.Transceive(p)
CallTokenTransceive(p) ==
  /\ pc = "idle"
  /\ calls < MaxCalls
  /\ calls' = calls + 1
  /\ op' = "Transceive"
  /\ TokenTransceive(p, stdout)
  /\ UNCHANGED <<stage, seed, seedIn, buffer, infoRes, rcvd, result, usedKeys>>
  /\ UNCHANGED outerVars

\* an outside caller invokes t.GetInfo()
CallGetInfo ==
  /\ pc = "idle"
  /\ calls < MaxCalls
  /\ calls' = calls + 1
  /\ op' = "GetInfo"
  /\ GetInfo(stdout)
  /\ UNCHANGED <<stage, seed, seedIn, buffer, infoRes, rcvd, result, usedKeys>>
  /\ UNCHANGED outerVars

\* t.BurnSeed(s) up to the first c.Transmit: buffer is built as a copy of
\* the seed with the trailer, GetInfo is entered
BurnSeed(s) ==
  /\ op' = "BurnSeed"
  /\ seed' = s
  /\ seedIn' = s
  /\ buffer' = BurnBuffer(s)
  /\ stage' = "info"
  /\ GetInfo(stdout)
  /\ UNCHANGED <<infoRes, rcvd, result, usedKeys>>

\* an outside caller invokes t.BurnSeed(s)
CallBurnSeed(s) ==
  /\ pc = "idle"
  /\ calls < MaxCalls
  /\ calls' = calls + 1
  /\ BurnSeed(s)
  /\ UNCHANGED outerVars

\* the call returns v (or panics with v) to its caller
Finish(v) ==
  /\ result' = v
  /\ pc' = "done"

ProbeReturn_IgnoreErr(r) ==
  /\ pc = "probe"
  /\ rcvd' = Append(rcvd, r)
  /\ transceiveRaw(frame, "frame", PrintedReply(r))
  /\ UNCHANGED <<result, infoRes, op, stage, seed, seedIn, buffer, data, frame, calls, usedKeys>>
  /\ UNCHANGED outerVars

\* c.Transmit(probe) returns r: ScardTag.Transceive returns the error or
\* goes on to transceiveRaw(data)
ProbeReturn(r) ==
  /\ pc = "probe"
  /\ rcvd' = Append(rcvd, r)
  /\ IF r.err # "nil"
       THEN /\ Finish(Err(r.err))
            /\ infoRes' = IF op = "BurnSeed" /\ stage = "info" THEN Err(r.err) ELSE infoRes
            /\ stdout' = PrintedReply(r)
            /\ UNCHANGED sent
       ELSE /\ transceiveRaw(frame, "frame", PrintedReply(r))
            /\ UNCHANGED <<result, infoRes>>
  /\ UNCHANGED <<op, stage, seed, seedIn, buffer, data, frame, calls, usedKeys>>
  /\ UNCHANGED outerVars

\* what Token.Transceive returns once Tag.Transceive returned r
TokenTransceiveResult(r) ==
  IF r.err # "nil" THEN Err(r.err) ELSE Validate(r.resp)

SeedAfterXor_Aliased(s, key) == XorKey(s, key)

\* the seed after the XOR loop over buffer: buffer's array was allocated by
\* append([]byte(nil), seed...), so the loop writes none of the seed's bytes
SeedAfterXor(s, key) == s

BurnSeedAfterInfo_CachedKey(v, out) ==
  /\ infoRes' = v
  /\ IF v.kind # "ok"
       THEN /\ Finish(v)
            /\ stdout' = out
            /\ UNCHANGED <<stage, seed, buffer, data, frame, sent, usedKeys>>
       ELSE IF Len(v.val) <= KeyIndex
       THEN /\ Finish(Panic("index out of range"))
            /\ stdout' = out
            /\ UNCHANGED <<stage, seed, buffer, data, frame, sent, usedKeys>>
       ELSE LET key == IF usedKeys = <<>> THEN KeyOf(v.val) ELSE usedKeys[1] IN
            /\ buffer' = XorKey(buffer, key)
            /\ seed' = SeedAfterXor(seed, key)
            /\ usedKeys' = Append(usedKeys, key)
            /\ stage' = "burn"
            /\ TokenTransceive(<<24>> \o buffer', out)
            /\ UNCHANGED result

\* BurnSeed after t.GetInfo() returned v: error return, key, XOR, burn
BurnSeedAfterInfo(v, out) ==
  /\ infoRes' = v
  /\ IF v.kind # "ok"
       THEN /\ Finish(v)
            /\ stdout' = out
            /\ UNCHANGED <<stage, seed, buffer, data, frame, sent, usedKeys>>
       ELSE IF Len(v.val) <= KeyIndex
       THEN /\ Finish(Panic("index out of range"))
            /\ stdout' = out
            /\ UNCHANGED <<stage, seed, buffer, data, frame, sent, usedKeys>>
       ELSE /\ buffer' = XorKey(buffer, KeyOf(v.val))
            /\ seed' = SeedAfterXor(seed, KeyOf(v.val))
            /\ usedKeys' = Append(usedKeys, KeyOf(v.val))
            /\ stage' = "burn"
            /\ TokenTransceive(<<24>> \o buffer', out)
            /\ UNCHANGED result

\* c.Transmit(frame) returns r: Token.Transceive validates and returns; a
\* BurnSeed in its GetInfo step continues with the burn
FrameReturn(r) ==
  /\ pc = "frame"
  /\ rcvd' = Append(rcvd, r)
  /\ IF op = "BurnSeed" /\ stage = "info"
       THEN BurnSeedAfterInfo(TokenTransceiveResult(r), PrintedReply(r))
       ELSE /\ Finish(TokenTransceiveResult(r))
            /\ stdout' = PrintedReply(r)
            /\ UNCHANGED <<stage, seed, buffer, infoRes, data, frame, sent, usedKeys>>
  /\ UNCHANGED <<op, seedIn, calls>>
  /\ UNCHANGED outerVars

\* c.Transmit(frame) returns with any result the card can produce
TransmitFrameReturn == \E r \in FrameResults(frame) : FrameReturn(r)

\* the locals of the finished call are gone
Forget ==
  /\ pc' = "idle"
  /\ op' = "none"
  /\ stage' = "none"
  /\ seed' = <<>>
  /\ seedIn' = <<>>
  /\ buffer' = <<>>
  /\ infoRes' = NoResult
  /\ data' = <<>>
  /\ frame' = <<>>
  /\ sent' = <<>>
  /\ rcvd' = <<>>
  /\ stdout' = <<>>
  /\ result' = NoResult

\* the caller has the outcome; the Token keeps no state between calls
Return ==
  /\ pc = "done"
  /\ result.kind # "panic"
  /\ Forget
  /\ UNCHANGED <<calls, usedKeys>>
  /\ UNCHANGED outerVars

Next ==
  \/ \E p \in Payloads : CallTokenTransceive(p)
  \/ CallGetInfo
  \/ \E s \in Seeds : CallBurnSeed(s)
  \/ \E r \in ProbeResults : ProbeReturn(r)
  \/ TransmitFrameReturn
  \/ Return

Spec == Init /\ [][Next]_vars

TypeOK ==
  /\ pc \in {"idle", "probe", "frame", "done"}
  /\ op \in {"none", "Transceive", "GetInfo", "BurnSeed"}
  /\ stage \in {"none", "info", "burn"}
  /\ result.kind \in {"none", "ok", "err", "panic"}
  /\ calls \in 0..MaxCalls

\* ---------------------------------------------------------------- the run
\* text is a sequence of one-character strings
LowerCase ==
  <<"a", "b", "c", "d", "e", "f", "g", "h", "i", "j", "k", "l", "m",
    "n", "o", "p", "q", "r", "s", "t", "u", "v", "w", "x", "y", "z">>
UpperCase ==
  <<"A", "B", "C", "D", "E", "F", "G", "H", "I", "J", "K", "L", "M",
    "N", "O", "P", "Q", "R", "S", "T", "U", "V", "W", "X", "Y", "Z">>
HexDigits ==
  <<"0", "1", "2", "3", "4", "5", "6", "7", "8", "9", "A", "B", "C", "D", "E", "F">>
\* the alphabet of base32.StdEncoding
Base32Alphabet == UpperCase \o <<"2", "3", "4", "5", "6", "7">>

IndexIn(alphabet, c) == CHOOSE k \in 1..Len(alphabet) : alphabet[k] = c
Within(alphabet, c) == \E k \in 1..Len(alphabet) : alphabet[k] = c

\* strings.ToUpper
ToUpper(str) ==
  [i \in 1..Len(str) |->
     IF Within(LowerCase, str[i]) THEN UpperCase[IndexIn(LowerCase, str[i])] ELSE str[i]]

\* strings.TrimSpace
IsSpace(c) == c \in {" ", "\t", "\n", "\r"}
TrimSpace(str) ==
  LET keep == {i \in 1..Len(str) : ~IsSpace(str[i])} IN
  IF keep = {} THEN <<>>
  ELSE SubSeq(str, CHOOSE i \in keep : \A j \in keep : i <= j,
                   CHOOSE i \in keep : \A j \in keep : i >= j)

DecodeOk(bytes) == [ok |-> TRUE, val |-> bytes]
DecodeErr == [ok |-> FALSE, val |-> <<>>]

\* hex.DecodeString: pairs of hex digits; an odd length or any other
\* character is an error
HexDecodeString(str) ==
  IF Len(str) % 2 = 1 \/ \E i \in 1..Len(str) : ~Within(HexDigits, str[i])
    THEN DecodeErr
    ELSE DecodeOk([i \in 1..(Len(str) \div 2) |->
                     16 * (IndexIn(HexDigits, str[2 * i - 1]) - 1)
                       + (IndexIn(HexDigits, str[2 * i]) - 1)])

\* one 8-character quantum of base32 with its first n characters data: the
\* 5-bit values are packed into 5 bytes, of which n data characters fill
\* 1 (n=2), 2 (n=4), 3 (n=5), 4 (n=7) or 5 (n=8)
QuantumBytes(q, n) ==
  LET v == [i \in 1..8 |-> IF i <= n THEN IndexIn(Base32Alphabet, q[i]) - 1 ELSE 0]
      all == << v[1] * 8 + (v[2] \div 4),
                (v[2] % 4) * 64 + v[3] * 2 + (v[4] \div 16),
                (v[4] % 16) * 16 + (v[5] \div 2),
                (v[5] % 2) * 128 + v[6] * 4 + (v[7] \div 8),
                (v[7] % 8) * 32 + v[8] >>
      k == CASE n = 2 -> 1 [] n = 4 -> 2 [] n = 5 -> 3 [] n = 7 -> 4 [] OTHER -> 5
  IN  SubSeq(all, 1, k)

\* number of data characters of a quantum: those before the first '='
DataLen(q) ==
  IF \E i \in 1..8 : q[i] = "=" THEN (CHOOSE i \in 1..8 : q[i] = "=" /\ \A j \in 1..(i - 1) : q[j] # "=") - 1
  ELSE 8

\* a quantum is valid if its data characters are of the alphabet, the rest
\* is padding, and the number of data characters is 2, 4, 5, 7 or 8; only
\* the last quantum may be padded
QuantumValid(q, last) ==
  LET n == DataLen(q) IN
  /\ n \in (IF last THEN {2, 4, 5, 7, 8} ELSE {8})
  /\ \A i \in 1..8 : IF i <= n THEN Within(Base32Alphabet, q[i]) ELSE q[i] = "="

RECURSIVE QuantaBytes(_, _)
QuantaBytes(str, k) ==
  IF 8 * k > Len(str) THEN <<>>
  ELSE LET q == SubSeq(str, 8 * k - 7, 8 * k)
       IN  QuantumBytes(q, DataLen(q)) \o QuantaBytes(str, k + 1)

\* base32.StdEncoding.DecodeString: CR and LF are dropped, the rest is
\* decoded in quanta of 8 characters
Base32DecodeString(str) ==
  LET src == SelectSeq(str, LAMBDA c : c \notin {"\r", "\n"})
      nq == Len(src) \div 8
  IN  IF Len(src) % 8 # 0
           \/ \E k \in 1..nq : ~QuantumValid(SubSeq(src, 8 * k - 7, 8 * k), k = nq)
        THEN DecodeErr
        ELSE DecodeOk(QuantaBytes(src, 1))

\* decodeHexOrBase32: upper-cased trimmed text as hex, else as base32, else
\* the joined errors
decodeHexOrBase32(str) ==
  LET t == ToUpper(TrimSpace(str)) IN
  IF HexDecodeString(t).ok THEN HexDecodeString(t)
  ELSE IF Base32DecodeString(t).ok THEN Base32DecodeString(t)
  ELSE DecodeErr

\* lines the user may type: hex, hex in lower case with blanks, the empty
\* line, base32 with and without padding, and text that is neither
SeedTexts ==
  { <<"1", "1", "2", "2", "\n">>,
    <<" ", "f", "f", " ", "\r", "\n">>,
    <<"\n">>,
    <<"M", "Y", "=", "=", "=", "=", "=", "=", "\n">>,
    <<"m", "f", "r", "g", "g", "=", "=", "=", "\n">>,
    <<"z", "z", "\n">>,
    <<"1", "2", "3", "\n">>,
    <<"M", "=", "Y", "=", "=", "=", "=", "=", "\n">>,
    <<"M", "Z", "X", "=", "=", "=", "=", "=", "\n">>,
    <<"1", "1", " ", "2", "2", "\n">> }

ReaderNames == <<"reader A", "reader B", "reader C">>
ReaderLists == {SubSeq(ReaderNames, 1, n) : n \in 0..MaxReaders}

ExitSuccess == [kind |-> "success", msg |-> ""]
ExitError(m) == [kind |-> "error", msg |-> m]
ExitPanic(m) == [kind |-> "panic", msg |-> m]

\* run returns e (or the process dies with e)
RunExit(e) ==
  /\ rpc' = "exit"
  /\ exit' = e

\* run is entered: the flag is parsed, nothing else has happened
InitRun ==
  /\ InitToken
  /\ DEBUG \in BOOLEAN
  /\ twin = NoTwin
  /\ ckData = <<>>
  /\ ckOut = NoChecksum
  /\ rpc = "context"
  /\ readers = <<>>
  /\ ridx = 1
  /\ seedText = <<>>
  /\ card = ""
  /\ connectTried = FALSE
  /\ exit = NoExit

\* scard.EstablishContext() returns
RunEstablishContext(ok) ==
  /\ rpc = "context"
  /\ IF ok THEN rpc' = "readers" /\ UNCHANGED exit
           ELSE RunExit(ExitError("establish context"))
  /\ UNCHANGED <<readers, ridx, seedText, card, connectTried>>
  /\ UNCHANGED <<tokenVars, DEBUG, twin, ckData, ckOut>>

\* context.ListReaders() returns; the prompt is printed and run blocks
\* in ReadString
RunListReaders(ok, list) ==
  /\ rpc = "readers"
  /\ IF ok THEN rpc' = "read" /\ readers' = list /\ UNCHANGED exit
           ELSE RunExit(ExitError("list readers")) /\ UNCHANGED readers
  /\ UNCHANGED <<ridx, seedText, card, connectTried>>
  /\ UNCHANGED <<tokenVars, DEBUG, twin, ckData, ckOut>>

RunReadSeed_ConnectAnyway(ok, text) ==
  /\ rpc = "read"
  /\ seedText' = IF ok THEN text ELSE <<>>
  /\ rpc' = "connect"
  /\ ridx' = 1
  /\ UNCHANGED <<readers, card, connectTried, exit>>
  /\ UNCHANGED <<tokenVars, DEBUG, twin, ckData, ckOut>>

\* reader.ReadString returns: on an error run returns it; else the text is
\* decoded, a decode error is returned, and otherwise the connection loop
\* is entered
RunReadSeed(ok, text) ==
  /\ rpc = "read"
  /\ seedText' = IF ok THEN text ELSE <<>>
  /\ IF ~ok THEN RunExit(ExitError("read")) /\ UNCHANGED ridx
     ELSE IF ~decodeHexOrBase32(text).ok
            THEN RunExit(ExitError("decode")) /\ UNCHANGED ridx
            ELSE rpc' = "connect" /\ ridx' = 1 /\ UNCHANGED exit
  /\ UNCHANGED <<readers, card, connectTried>>
  /\ UNCHANGED <<tokenVars, DEBUG, twin, ckData, ckOut>>

\* context.Connect(readers[ridx]) returns: on success both loops are left
\* and token.BurnSeed(seed) is entered; on failure the inner loop goes to
\* the next reader, and the outer loop starts it again after the last one.
\* With no readers the outer loop spins without a step.
RunConnect(ok) ==
  /\ rpc = "connect"
  /\ ridx <= Len(readers)
  /\ connectTried' = TRUE
  /\ IF ok
       THEN /\ card' = readers[ridx]
            /\ rpc' = "burning"
            /\ calls' = calls + 1
            /\ BurnSeed(decodeHexOrBase32(seedText).val)
            /\ UNCHANGED ridx
       ELSE /\ ridx' = IF ridx = Len(readers) THEN 1 ELSE ridx + 1
            /\ UNCHANGED <<card, rpc, tokenVars>>
  /\ UNCHANGED <<readers, seedText, exit>>
  /\ UNCHANGED <<DEBUG, twin, ckData, ckOut>>

\* token.BurnSeed returned (or panicked): run returns the error, or prints
\* Success and returns nil
RunBurnReturn ==
  /\ rpc = "burning"
  /\ pc = "done"
  /\ RunExit(CASE result.kind = "ok" -> ExitSuccess
               [] result.kind = "err" -> ExitError(result.msg)
               [] OTHER -> ExitPanic(result.msg))
  /\ UNCHANGED <<readers, ridx, seedText, card, connectTried>>
  /\ UNCHANGED <<tokenVars, DEBUG, twin, ckData, ckOut>>

NextRun ==
  \/ \E ok \in BOOLEAN : RunEstablishContext(ok)
  \/ \E ok \in BOOLEAN, list \in ReaderLists : RunListReaders(ok, list)
  \/ \E ok \in BOOLEAN, text \in SeedTexts : RunReadSeed(ok, text)
  \/ \E ok \in BOOLEAN : RunConnect(ok)
  \/ \E r \in ProbeResults : ProbeReturn(r)
  \/ TransmitFrameReturn
  \/ RunBurnReturn

SpecRun == InitRun /\ [][NextRun]_vars

\* ------------------------------------------ one call under both DEBUG values
\* the first run: one call on the Token, the transport answering freely
FirstCall ==
  /\ ~twin.on
  /\ calls = 0
  /\ \/ \E p \in Payloads : CallTokenTransceive(p)
     \/ CallGetInfo
     \/ \E s \in Seeds : CallBurnSeed(s)

FirstTransmitReturn ==
  /\ ~twin.on
  /\ \/ \E r \in ProbeResults : ProbeReturn(r)
     \/ TransmitFrameReturn

\* the finished call is recorded; the program is started again with the
\* other value of the -debug flag
Rerun ==
  /\ pc = "done"
  /\ ~twin.on
  /\ twin' = [on |-> TRUE, debug |-> DEBUG, op |-> op,
              arg |-> IF op = "BurnSeed" THEN seedIn ELSE data,
              sent |-> sent, rcvd |-> rcvd, stdout |-> stdout, result |-> result]
  /\ DEBUG' = ~DEBUG
  /\ Forget
  /\ usedKeys' = <<>>
  /\ UNCHANGED <<calls, ckData, ckOut, runVars>>

\* the second run makes the recorded call with the recorded argument
ReplayCall ==
  /\ twin.on
  /\ calls = 1
  /\ \/ twin.op = "Transceive" /\ CallTokenTransceive(twin.arg)
     \/ twin.op = "GetInfo" /\ CallGetInfo
     \/ twin.op = "BurnSeed" /\ CallBurnSeed(twin.arg)

\* the transport behaves as in the first run: c.Transmit returns what it
\* returned then
ReplayTransmitReturn ==
  /\ twin.on
  /\ Len(rcvd) < Len(twin.rcvd)
  /\ \/ ProbeReturn(twin.rcvd[Len(rcvd) + 1])
     \/ FrameReturn(twin.rcvd[Len(rcvd) + 1])

NextDebug ==
  \/ FirstCall
  \/ FirstTransmitReturn
  \/ Rerun
  \/ ReplayCall
  \/ ReplayTransmitReturn

SpecDebug == Init /\ [][NextDebug]_vars

\* --------------------------------------------- checksum as a pure function
\* byte sequences handed to checksum: zero, small, sign-bit and all-ones
\* bytes, so that word sums stay below and run over 16 bits
CkBytes == {0, 1, 128, 255}
CkInputs == UNION {[1..n -> CkBytes] : n \in 0..MaxCkLen}

InitChecksum ==
  /\ InitToken
  /\ DEBUG = FALSE
  /\ twin = NoTwin
  /\ ckData \in CkInputs
  /\ ckOut = NoChecksum
  /\ NoRun

\* checksum(ckData) is called and returns
ComputeChecksum ==
  /\ ~ckOut.done
  /\ ckOut' = [done |-> TRUE, sum |-> checksum(ckData)]
  /\ UNCHANGED <<ckData, tokenVars, DEBUG, twin, runVars>>

\* checksum is called again on the data with one more byte
ExtendChecksum(b) ==
  /\ ckOut.done
  /\ Len(ckData) < MaxCkLen
  /\ ckData' = Append(ckData, b)
  /\ ckOut' = [done |-> TRUE, sum |-> checksum(ckData')]
  /\ UNCHANGED <<tokenVars, DEBUG, twin, runVars>>

NextChecksum ==
  \/ ComputeChecksum
  \/ \E b \in CkBytes : ExtendChecksum(b)

SpecChecksum == InitChecksum /\ [][NextChecksum]_vars

\* ------------------------------------------------- vocabulary of the claims
\* bit k of the XOR of all bytes of p is the parity of the bytes having bit k
Par(p, k) == Cardinality({i \in 1..Len(p) : (p[i] \div (2 ^ k)) % 2 = 1}) % 2
XorFold(p) ==
  Par(p, 0) + 2 * Par(p, 1) + 4 * Par(p, 2) + 8 * Par(p, 3)
    + 16 * Par(p, 4) + 32 * Par(p, 5) + 64 * Par(p, 6) + 128 * Par(p, 7)

InfoFrame == <<134, 2, 16, 16>>
IsBurnFrame(f) == Len(f) >= 3 /\ f[1] = 134 /\ f[3] = 24
NoTransportError == \A i \in 1..Len(rcvd) : rcvd[i].err = "nil"

\* a reply as the wire format reads it: n = resp[1] bytes follow the length
\* byte, the last of them the checksum at 0-based position 2+n-1
BadHeader(resp) == Len(resp) = 0 \/ resp[1] # 170
Covered(resp) == Len(resp) >= 2 /\ resp[2] >= 1 /\ Len(resp) >= resp[2] + 2
Region(resp) == SubSeq(resp, 3, resp[2] + 1)
BadChecksum(resp) ==
  /\ ~BadHeader(resp)
  /\ Covered(resp)
  /\ resp[resp[2] + 2] # XorFold(Region(resp))
WellFormed(resp) ==
  /\ ~BadHeader(resp)
  /\ Covered(resp)
  /\ resp[resp[2] + 2] = XorFold(Region(resp))

\* the reply that Token.Transceive has validated when the call is over
Validated == pc = "done" /\ Len(rcvd) \in {2, 4} /\ rcvd[Len(rcvd)].err = "nil"
LastResp == rcvd[Len(rcvd)].resp

\* ------------------------------------------------------------------ claims
\* C1 as stated: with an info payload of at least 5 bytes BurnSeed sends
\* [0x18] ++ (seed ++ 06 1E ++ checksum16(seed)) XOR info[4].
C1_Original ==
  (op = "BurnSeed" /\ infoRes.kind = "ok" /\ Len(infoRes.val) >= 5)
    => /\ stage = "burn"
       /\ data = <<24>> \o XorKey(BurnBuffer(seed), infoRes.val[5])

\* C1 amended: with an info payload of at least 6 bytes BurnSeed sends
\* [0x18] ++ (seed ++ 06 1E ++ checksum16(seed)) XOR info[5] (0-based), and a
\* payload it returns is the region resp[2 : 2+n-1] of the burn reply; with
\* info = [0,0,0,0,0,0x2A], seed = [0x11,0x22] and burn reply [AA 02 01 01]
\* the burn payload is 18 3B 08 2C 34 7B 1D and the result [0x01].
C1_BurnPayload ==
  /\ (op = "BurnSeed" /\ infoRes.kind = "ok" /\ Len(infoRes.val) >= 6)
       => /\ stage = "burn"
          /\ data = <<24>> \o [i \in 1..(Len(seed) + 4) |->
                                 BitXor(BurnBuffer(seed)[i], infoRes.val[6])]
          /\ Len(sent) >= 3
          /\ Len(sent) = 4 => SubSeq(sent[4], 3, Len(sent[4]) - 1) = data
          /\ (pc = "done" /\ result.kind = "ok")
               => /\ Len(rcvd) = 4
                  /\ result.val = Region(rcvd[4].resp)
  /\ (op = "BurnSeed" /\ seed = <<17, 34>> /\ infoRes = Ok(<<0, 0, 0, 0, 0, 42>>))
       => /\ data = <<24, 59, 8, 44, 52, 123, 29>>
          /\ (pc = "done" /\ Len(rcvd) = 4 /\ rcvd[4] = TransmitOk(<<170, 2, 1, 1>>))
               => result = Ok(<<1>>)

C1_Witness ==
  /\ op = "BurnSeed" /\ seed = <<17, 34>>
  /\ infoRes = Ok(<<0, 0, 0, 0, 0, 42>>)
  /\ data = <<24, 59, 8, 44, 52, 123, 29>>
  /\ pc = "done" /\ Len(rcvd) = 4 /\ rcvd[4] = TransmitOk(<<170, 2, 1, 1>>)
  /\ result = Ok(<<1>>)

\* C2 as stated: a BurnSeed call without transport error has transmitted
\* exactly probe, info frame, probe, burn frame when it is over.
C2_Original ==
  (op = "BurnSeed" /\ pc = "done" /\ NoTransportError)
    => /\ Len(sent) = 4
       /\ sent[1] = Probe /\ sent[2] = InfoFrame
       /\ sent[3] = Probe /\ IsBurnFrame(sent[4])

\* C2 amended: a BurnSeed call without transport error transmits probe, info
\* frame; it goes on to probe, burn frame exactly when the info reply is a
\* well-formed frame whose payload has at least 6 bytes (and whose length
\* byte is below 255), and then has transmitted exactly those four; every
\* transmission starts only after the reply to the previous one.
C2_Sequence ==
  (op = "BurnSeed" /\ NoTransportError)
    => /\ Len(sent) \in 1..4
       /\ Len(sent) - Len(rcvd) = (IF pc \in {"probe", "frame"} THEN 1 ELSE 0)
       /\ sent[1] = Probe
       /\ Len(sent) >= 2 => sent[2] = InfoFrame
       /\ Len(sent) >= 3 => sent[3] = Probe
       /\ Len(sent) >= 4 => (IsBurnFrame(sent[4]) /\ sent[4] = frame)
       /\ Len(rcvd) >= 2 =>
            (Len(sent) >= 3 <=> /\ WellFormed(rcvd[2].resp)
                                /\ rcvd[2].resp[2] \in 7..254)
       /\ (pc = "done" /\ Len(sent) >= 3) => Len(sent) = 4

C2_Witness ==
  /\ op = "BurnSeed" /\ pc = "done" /\ NoTransportError
  /\ Len(sent) = 4 /\ Len(rcvd) = 4

\* C3 as stated: when the GetInfo step fails (transport error on the probe or
\* the info frame, bad reply header, bad reply checksum) BurnSeed returns that
\* failure and transmits no burn frame.
C3_Claim ==
  (op = "BurnSeed" /\ Len(rcvd) >= 1)
    => /\ rcvd[1].err # "nil"
            => (pc = "done" /\ result = Err(rcvd[1].err) /\ Len(sent) = 1)
       /\ (Len(rcvd) >= 2 /\ rcvd[2].err # "nil")
            => (pc = "done" /\ result = Err(rcvd[2].err) /\ Len(sent) = 2)
       /\ (Len(rcvd) >= 2 /\ rcvd[2].err = "nil" /\ BadHeader(rcvd[2].resp))
            => /\ pc = "done" /\ Len(sent) = 2
               /\ result = Err("unknown response header byte")
       /\ (Len(rcvd) >= 2 /\ rcvd[2].err = "nil" /\ BadChecksum(rcvd[2].resp))
            => /\ pc = "done" /\ Len(sent) = 2
               /\ result = Err("response checksum incorrect")

\* C4: in every ScardTag.Transceive the probe goes out before the real
\* payload, the payload only after the probe was answered without error, and
\* a failed probe ends the call with that error and nothing more is sent.
C4_ProbeFirst ==
  /\ \A i \in 1..Len(sent) :
       IF i % 2 = 1
         THEN sent[i] = Probe
         ELSE /\ sent[i] # Probe /\ sent[i][1] = 134
              /\ sent[i - 1] = Probe
              /\ Len(rcvd) >= i - 1 /\ rcvd[i - 1].err = "nil"
  /\ \A i \in 1..Len(rcvd) :
       (i % 2 = 1 /\ rcvd[i].err # "nil")
         => (Len(sent) = i /\ pc = "done" /\ result = Err(rcvd[i].err))

C4_Witness ==
  /\ op = "BurnSeed" /\ pc = "done"
  /\ Len(rcvd) = 3 /\ rcvd[3].err = "card removed"
  /\ Len(sent) = 3

\* C5 as stated: an info payload of fewer than 5 bytes makes BurnSeed return
\* the error "info too short" without a burn frame; with 5 bytes or more the
\* burn proceeds.
C5_Claim ==
  (op = "BurnSeed" /\ infoRes.kind = "ok")
    => IF Len(infoRes.val) < 5
         THEN pc = "done" /\ result = Err("info too short") /\ Len(sent) = 2
         ELSE stage = "burn" /\ Len(sent) >= 3

\* C6: for a payload of at most 254 bytes the frame handed to the transport
\* is 0x86, len+1, the payload verbatim, the XOR of the payload bytes.
C6_FrameLayout ==
  (pc # "idle" /\ Len(data) <= 254)
    => /\ Len(frame) = Len(data) + 3
       /\ frame[1] = 134
       /\ frame[2] = Len(data) + 1
       /\ SubSeq(frame, 3, Len(data) + 2) = data
       /\ frame[Len(frame)] = XorFold(data)
       /\ (Len(sent) > 0 /\ Len(sent) % 2 = 0) => sent[Len(sent)] = frame

C6_Witness ==
  /\ pc = "frame" /\ Len(data) = 254 /\ data[1] = 7
  /\ sent[2] = frame /\ frame[2] = 255 /\ frame[257] = 0

\* C7 as stated: for a payload p of at most 254 bytes, the reply frame(p)
\* with header 0xAA is accepted and p is returned.
C7_Claim ==
  ( /\ op = "Transceive" /\ Len(data) <= 254
    /\ pc = "done" /\ Len(rcvd) = 2
    /\ rcvd[2] = TransmitOk(<<170, Len(data) + 1>> \o data \o <<XorFold(data)>>) )
    => result = Ok(data)

\* C8 as stated: an empty reply or one not starting with 0xAA makes the call
\* return the error "unknown response header byte".
C8_Claim ==
  (Validated /\ BadHeader(LastResp))
    => result = Err("unknown response header byte")

\* C9 as stated: a reply with header 0xAA whose byte at 2+n-1 differs from the
\* XOR of resp[2 : 2+n-1] makes the call return the error "response checksum
\* incorrect"; a payload is returned only for a valid header and checksum.
C9_Claim ==
  Validated
    => /\ BadChecksum(LastResp) => result = Err("response checksum incorrect")
       /\ result.kind = "ok" => WellFormed(LastResp)

\* C10 as stated: whatever the transport returns, Token.Transceive returns a
\* payload or an error; it never indexes or slices out of bounds.
C10_Claim ==
  (op \in {"Transceive", "GetInfo"} /\ pc = "done")
    => result.kind \in {"ok", "err"}

\* C11 as stated: a payload of more than 254 bytes makes Token.Transceive
\* fail with EncodingError before anything is handed to the transport.
C11_Claim ==
  (pc # "idle" /\ Len(data) > 254)
    => /\ pc = "done"
       /\ result = Err("EncodingError")
       /\ sent = <<>>

\* the 16-bit words of d in order, a trailing single byte left out
RECURSIVE WordsFrom(_, _)
WordsFrom(d, i) ==
  IF i + 1 > Len(d) THEN 0 ELSE (d[i] * 256 + d[i + 1]) + WordsFrom(d, i + 2)
HasBit(x, k) == (x \div (2 ^ k)) % 2 = 1

\* C12: checksum16(data) is (sum mod 2^16 of the big-endian words of data,
\* an odd trailing byte left out) OR 0x5115; so all bits of 0x5115 are set in
\* it, and one byte appended to an even-length input does not change it.
C12_Checksum16 ==
  /\ [](ckOut.done =>
          /\ ckOut.sum \in 0..65535
          /\ \A k \in 0..15 :
               HasBit(ckOut.sum, k) <=>
                 (HasBit(WordsFrom(ckData, 1) % 65536, k) \/ HasBit(20757, k))
          /\ \A k \in {0, 2, 4, 8, 12, 14} : HasBit(ckOut.sum, k))
  /\ [][(ckOut.done /\ Len(ckData) % 2 = 0 /\ Len(ckData') = Len(ckData) + 1)
          => ckOut'.sum = ckOut.sum]_vars

C12_Witness ==
  /\ ckOut.done
  /\ Len(ckData) = 5
  /\ WordsFrom(ckData, 1) > 65535
  /\ ckData[5] = 255

\* C13: every BurnSeed call sends its own GetInfo frame before its burn frame,
\* and the burn buffer is XORed with byte 5 of the info payload received in
\* that same call, whatever key an earlier call used.
C13_FreshKey ==
  (op = "BurnSeed" /\ stage = "burn")
    => /\ Len(sent) >= 3 /\ sent[1] = Probe /\ sent[2] = InfoFrame
       /\ Len(rcvd) >= 2 /\ rcvd[2].err = "nil"
       /\ LET key == Region(rcvd[2].resp)[6] IN
            /\ usedKeys[Len(usedKeys)] = key
            /\ data = <<24>> \o [i \in 1..(Len(seedIn) + 4) |->
                                   BitXor(BurnBuffer(seedIn)[i], key)]
            /\ Len(sent) = 4 => SubSeq(sent[4], 3, Len(sent[4]) - 1) = data

C13_Witness ==
  /\ op = "BurnSeed" /\ stage = "burn" /\ Len(sent) = 4
  /\ Len(usedKeys) = 2
  /\ usedKeys[1] = 42 /\ usedKeys[2] = 6

\* C15: a call run with DEBUG on and run again with DEBUG off (or the other
\* way round), with the same argument and the same results of c.Transmit,
\* transmits the same byte strings in the same order and ends with the same
\* payload, error or panic.
C15_DebugObservational ==
  (twin.on /\ pc # "idle")
    => /\ DEBUG # twin.debug
       /\ op = twin.op
       /\ Len(sent) <= Len(twin.sent)
       /\ \A i \in 1..Len(sent) : sent[i] = twin.sent[i]
       /\ Len(rcvd) = Len(twin.rcvd) => pc = "done"
       /\ pc = "done" => (sent = twin.sent /\ rcvd = twin.rcvd /\ result = twin.result)

C15_Witness ==
  /\ twin.on /\ pc = "done" /\ op = "BurnSeed"
  /\ Len(sent) = 4 /\ result = Ok(<<1>>)
  /\ DEBUG /\ Len(stdout) = 8 /\ twin.stdout = <<>>
  /\ twin.result = result

\* C16: BurnSeed leaves the bytes of the caller's seed as they were at entry,
\* at every point of the call and whatever its outcome, and the two checksum
\* bytes of the burn buffer are checksum16 of that un-keyed seed.
C16_SeedUnchanged ==
  (op = "BurnSeed")
    => /\ seed = seedIn
       /\ stage = "burn" =>
            LET n == Len(data)
                key == usedKeys[Len(usedKeys)]
                c == 256 * BitXor(data[n - 1], key) + BitXor(data[n], key)
            IN  /\ n = Len(seedIn) + 5
                /\ \A i \in 1..Len(seedIn) : BitXor(data[i + 1], key) = seedIn[i]
                /\ \A k \in 0..15 :
                     HasBit(c, k) <=>
                       (HasBit(WordsFrom(seedIn, 1) % 65536, k) \/ HasBit(20757, k))

C16_Witness ==
  /\ op = "BurnSeed" /\ pc = "done" /\ stage = "burn"
  /\ seedIn = <<17, 255>> /\ seed = seedIn
  /\ usedKeys[Len(usedKeys)] = 42
  /\ result.kind = "ok"

\* the reply at position i of the call failed: a transport error, or a frame
\* reply with a bad header or a bad checksum
FailedAt(i) ==
  \/ rcvd[i].err # "nil"
  \/ i % 2 = 0 /\ (BadHeader(rcvd[i].resp) \/ BadChecksum(rcvd[i].resp))
FailureAt(i) ==
  IF rcvd[i].err # "nil" THEN Err(rcvd[i].err)
  ELSE IF BadHeader(rcvd[i].resp) THEN Err("unknown response header byte")
  ELSE Err("response checksum incorrect")

\* C14 as stated: after the first failed transmission or rejected reply a
\* GetInfo or BurnSeed call transmits nothing more and returns that error; a
\* GetInfo call makes at most 2 raw transmissions, a BurnSeed call at most 4.
C14_Claim ==
  (op \in {"GetInfo", "BurnSeed"})
    => /\ Len(sent) <= (IF op = "GetInfo" THEN 2 ELSE 4)
       /\ \A i \in 1..Len(rcvd) :
            FailedAt(i) => (Len(sent) = i /\ pc = "done" /\ result = FailureAt(i))

\* what Go's hex and base32 decoders yield for the lines that decode
ExpectedSeed ==
  ( <<"1", "1", "2", "2", "\n">> :> <<17, 34>> )
    @@ ( <<" ", "f", "f", " ", "\r", "\n">> :> <<255>> )
    @@ ( <<"\n">> :> <<>> )
    @@ ( <<"M", "Y", "=", "=", "=", "=", "=", "=", "\n">> :> <<102>> )
    @@ ( <<"m", "f", "r", "g", "g", "=", "=", "=", "\n">> :> <<97, 98, 99>> )

\* C17: run reads and decodes the seed before any Connect: a failed read or a
\* text that is neither hex nor base32 ends run with the error, without a
\* Connect and without a transmission; BurnSeed is entered at most once, with
\* the decoded seed, after a Connect succeeded.
C17_DecodeBeforeConnect ==
  /\ calls <= 1
  /\ (connectTried \/ rpc \in {"connect", "burning"})
       => seedText \in DOMAIN ExpectedSeed
  /\ calls = 1
       => /\ connectTried /\ card # ""
          /\ op = "BurnSeed" /\ seedIn = ExpectedSeed[seedText]
  /\ (sent # <<>> \/ op # "none") => calls = 1
  /\ (rpc = "exit" /\ seedText \notin DOMAIN ExpectedSeed)
       => /\ exit.kind = "error"
          /\ ~connectTried /\ card = ""
          /\ calls = 0 /\ sent = <<>>

C17_Witness ==
  /\ rpc = "exit"
  /\ seedText = <<"M", "Z", "X", "=", "=", "=", "=", "=", "\n">>
  /\ exit = ExitError("decode")
  /\ ~connectTried /\ sent = <<>>

\* C18 as stated, its part on finite runs: BurnSeed is entered only after a
\* Connect succeeded (never with no readers), and a run that connected ends
\* with Success or with an error.
C18_Claim ==
  /\ (calls > 0 \/ rpc = "burning") => (card # "" /\ Len(readers) > 0)
  /\ (rpc = "exit" /\ card # "") => exit.kind \in {"success", "error"}

\* without readers, or while every Connect fails, the loop is not left
RunStaysInLoop == [][(rpc = "connect" /\ rpc' # "connect") => card' # ""]_vars

====
